---- MODULE Spec2Model ----
(***************************************************************************)
(* Model of the multi-agent workflow orchestrator of virtual-dev-agent:    *)
(* the Router (SupervisorAgent), the four step agents and the LangGraph    *)
(* wiring of src/agents/graph.py.                                          *)
(*                                                                         *)
(* Numbers that are floats in the source are kept as integers: a           *)
(* confidence sub-score is held in hundredths (0.3 is 30) and the overall  *)
(* confidence in thousandths.                                              *)
(***************************************************************************)
EXTENDS Integers, Sequences, FiniteSets, TLC

(***************************************************************************)
(* Bounds of the model                                                     *)
(***************************************************************************)
\* the Tester node is explored up to this many executions per run
MaxTesterRuns == 4
\* largest test_iterations value a caller-built state holds (SpecRouter)
MaxIterInput == 4

\* writes (pull requests created, comments added) followed in repeated direct
\* calls of the Reporter
MaxGitHubWrites == 3

\* lines of a console output of the test command
MaxLines == 3

\* largest passed and failed count given to the Tester's confidence
MaxCount == 6

(***************************************************************************)
(* Program constants                                                       *)
(***************************************************************************)
MAX_TEST_ITERATIONS == 3
\* confidence the Router uses with fallback routing (0.3)
FALLBACK_CONFIDENCE == 30
\* confidence the Router uses when the response carries none (0.5)
DEFAULT_CONFIDENCE == 50

valid_routes == {"planner", "implementer", "tester", "reporter", "done"}

StatusType == {"pending", "planning", "implementing", "testing", "reporting",
               "done", "failed"}

\* default_confidence(): every sub-score 0.0
default_confidence ==
    [routing |-> 0, planning |-> 0, implementation |-> 0, testing |-> 0,
     overall |-> 0]

\* test_results values: {} is NoResults; `present` is the dict's truthiness,
\* `error` says the dict is the {"success": False, "error": ...} of the
\* Tester's exception path
NoResults ==
    [present |-> FALSE, success |-> FALSE, passed |-> 0, failed |-> 0,
     error |-> FALSE]

ErrorResults ==
    [present |-> TRUE, success |-> FALSE, passed |-> 0, failed |-> 0,
     error |-> TRUE]

\* AgentState(): the dataclass defaults; also what from_graph_state reads
\* from a graph state in which a key is absent
AgentState ==
    [jira_ticket_id |-> "", jira_details |-> "", branch_name |-> "",
     implementation_plan |-> "", repo_path |-> "", code_changes |-> 0,
     test_results |-> NoResults, test_iterations |-> 0,
     fix_suggestions |-> "", branch_exists |-> FALSE,
     skip_implementation |-> FALSE, pr_url |-> "", pr_number |-> 0,
     route |-> "None", status |-> "pending", error |-> "None",
     confidence |-> default_confidence]

(***************************************************************************)
(* The Router: SupervisorAgent                                             *)
(***************************************************************************)

\* str.lower() on the strings the provider is modelled to send
Lower(s) ==
    CASE s = "PLANNER" -> "planner"
      [] s = "Tester" -> "tester"
      [] OTHER -> s

\* texts the provider sends as a route value or as a whole bare answer
ProviderTexts ==
    {"planner", "implementer", "tester", "reporter", "done",
     "PLANNER", "Tester", "garbage", ""}

\* float("nan"): json.loads accepts the literal NaN and float() the string
\* "nan"; every comparison with it is false
NaN == 1000000

\* confidence numbers (hundredths) the provider sends
ProviderConfidences == {-50, 150, NaN}

\* the confidence value of a decoded response: a number (hundredths), no
\* such key ("absent"), a string float() accepts ("numstr", here "1.5"), a
\* string float() rejects ("badstr") or null
ConfidenceValues ==
    {[kind |-> "number", value |-> n] : n \in ProviderConfidences}
    \cup {[kind |-> k, value |-> 0] : k \in {"absent", "badstr", "null"}}
    \cup {[kind |-> "numstr", value |-> 150]}

NoConfidence == [kind |-> "absent", value |-> 0]

\* What llm.invoke gives the Router.
\*   raise   : the call itself raises
\*   text    : content in which re.search(r'\{[^}]+\}') finds nothing
\*   badjson : a {...} match that json.loads rejects
\*   json    : a {...} match that json.loads accepts; route is a string of
\*             ProviderTexts, "absent" (no such key) or "nonstring" (null,
\*             number, list)
RouterResponses ==
    {[kind |-> "raise", text |-> "", route |-> "absent", confidence |-> NoConfidence]}
    \cup {[kind |-> "text", text |-> t, route |-> "absent", confidence |-> NoConfidence] :
            t \in ProviderTexts}
    \cup {[kind |-> "badjson", text |-> "", route |-> "absent", confidence |-> NoConfidence]}
    \cup {[kind |-> "json", text |-> "", route |-> r, confidence |-> c] :
            r \in ProviderTexts \cup {"absent", "nonstring"},
            c \in ConfidenceValues}

\* mutant: the skip_implementation test is made after the fix-suggestion test
_fallback_route_swapped(state) ==
    IF state.pr_url # "" THEN "done"
    ELSE IF state.test_results.present /\ state.test_results.success THEN "reporter"
    ELSE IF state.test_results.present /\ ~state.test_results.success
            /\ state.fix_suggestions # "" THEN "implementer"
    ELSE IF state.skip_implementation THEN "tester"
    ELSE IF state.code_changes > 0 THEN "tester"
    ELSE IF state.implementation_plan # "" THEN "implementer"
    ELSE "planner"

\* mutant: the fallback does not look at implementation_plan
_fallback_route_no_plan_test(state) ==
    IF state.pr_url # "" THEN "done"
    ELSE IF state.test_results.present /\ state.test_results.success THEN "reporter"
    ELSE IF state.skip_implementation THEN "tester"
    ELSE IF state.test_results.present /\ ~state.test_results.success
            /\ state.fix_suggestions # "" THEN "implementer"
    ELSE IF state.code_changes > 0 THEN "tester"
    ELSE "planner"

\* SupervisorAgent._fallback_route
_fallback_route(state) ==
    IF state.pr_url # "" THEN "done"
    ELSE IF state.test_results.present /\ state.test_results.success THEN "reporter"
    ELSE IF state.skip_implementation THEN "tester"
    ELSE IF state.test_results.present /\ ~state.test_results.success
            /\ state.fix_suggestions # "" THEN "implementer"
    ELSE IF state.code_changes > 0 THEN "tester"
    ELSE IF state.implementation_plan # "" THEN "implementer"
    ELSE "planner"

\* the try block of _parse_response: [raised, fell, route, confidence] where
\* raised says an exception other than JSONDecodeError/ValueError left the
\* method and fell says the except clause ran
ParseTry(resp, state) ==
    LET fallback == [raised |-> FALSE, fell |-> TRUE,
                     route |-> _fallback_route(state),
                     confidence |-> FALLBACK_CONFIDENCE]
        escaped == [raised |-> TRUE, fell |-> FALSE, route |-> "",
                    confidence |-> 0]
    IN  CASE resp.kind = "text" ->
               [raised |-> FALSE, fell |-> FALSE, route |-> Lower(resp.text),
                confidence |-> DEFAULT_CONFIDENCE]
          [] resp.kind = "badjson" -> fallback
          [] resp.kind = "json" ->
               \* data.get("route", "").lower() comes first, float() second
               IF resp.route = "nonstring" THEN escaped
               ELSE IF resp.confidence.kind = "badstr" THEN fallback
               ELSE IF resp.confidence.kind = "null" THEN escaped
               ELSE [raised |-> FALSE, fell |-> FALSE,
                     route |-> IF resp.route = "absent" THEN ""
                               ELSE Lower(resp.route),
                     confidence |->
                         IF resp.confidence.kind = "absent"
                         THEN DEFAULT_CONFIDENCE
                         ELSE resp.confidence.value]
          [] OTHER -> escaped

\* Python's min(a, b) and max(a, b): b when b < a (b > a), else a
Min(a, b) == IF a # NaN /\ b # NaN /\ b < a THEN b ELSE a
Max(a, b) == IF a # NaN /\ b # NaN /\ b > a THEN b ELSE a

\* mutant: the iteration cap is missing
IterationCapOff(r, state) == r

\* the hard cap of _parse_response
IterationCap(r, state) ==
    IF r = "tester" /\ state.test_iterations >= MAX_TEST_ITERATIONS
    THEN "reporter" ELSE r

\* mutant: an invalid route is passed on instead of replaced
ValidateRouteOff(t, state) == t

\* mutant: the fallback for an invalid route keeps the response's confidence
ValidateRouteKeepsConfidence(t, state) ==
    IF t.route \notin valid_routes
    THEN [t EXCEPT !.route = _fallback_route(state), !.fell = TRUE]
    ELSE t

\* the valid_routes check of _parse_response
ValidateRoute(t, state) ==
    IF t.route \notin valid_routes
    THEN [t EXCEPT !.route = _fallback_route(state),
                   !.confidence = FALLBACK_CONFIDENCE, !.fell = TRUE]
    ELSE t

\* SupervisorAgent._parse_response: [raised, fell, route, confidence]
_parse_response(resp, state) ==
    LET t == ParseTry(resp, state)
    IN  IF t.raised THEN t
        ELSE LET v == ValidateRoute(t, state)
             IN  [v EXCEPT !.route = IterationCap(v.route, state),
                           !.confidence = Min(Max(v.confidence, 0), 100)]

\* SupervisorAgent.route: [raised, state]; llm says a provider is configured
route(llm, resp, state) ==
    IF ~llm \/ resp.kind = "raise"
    THEN [raised |-> TRUE, state |-> state]
    ELSE LET p == _parse_response(resp, state)
         IN  IF p.raised THEN [raised |-> TRUE, state |-> state]
             ELSE [raised |-> FALSE,
                   state |-> [state EXCEPT !.route = p.route,
                                           !.confidence.routing = p.confidence]]

(***************************************************************************)
(* Confidence arithmetic                                                   *)
(***************************************************************************)

\* calc_overall_confidence, in thousandths: weights 0.1, 0.2, 0.3, 0.4
calc_overall_confidence(confidence) ==
    IF NaN \in {confidence.routing, confidence.planning,
                confidence.implementation, confidence.testing}
    THEN NaN
    ELSE confidence.routing * 1 + confidence.planning * 2
         + confidence.implementation * 3 + confidence.testing * 4

\* round(n / d) to the nearest integer, for n >= 0 and d > 0
RoundDiv(n, d) == (2 * n + d) \div (2 * d)

(***************************************************************************)
(* Planner                                                                 *)
(***************************************************************************)

\* tickets the tracker holds: lengths of summary and description, number of
\* recent comments
Tickets == {"rich"}
TicketShapes ==
    [rich      |-> [summary |-> 30, description |-> 80, comments |-> 3],
     poor      |-> [summary |-> 5,  description |-> 0,  comments |-> 0],
     terse     |-> [summary |-> 5,  description |-> 80, comments |-> 3],
     s5_d0_c3  |-> [summary |-> 5,  description |-> 0,  comments |-> 3],
     s5_d30_c0 |-> [summary |-> 5,  description |-> 30, comments |-> 0],
     s5_d30_c3 |-> [summary |-> 5,  description |-> 30, comments |-> 3],
     s5_d80_c0 |-> [summary |-> 5,  description |-> 80, comments |-> 0],
     s30_d0_c0 |-> [summary |-> 30, description |-> 0,  comments |-> 0],
     s30_d0_c3 |-> [summary |-> 30, description |-> 0,  comments |-> 3],
     s30_d30_c0 |-> [summary |-> 30, description |-> 30, comments |-> 0],
     s30_d30_c3 |-> [summary |-> 30, description |-> 30, comments |-> 3],
     s30_d80_c0 |-> [summary |-> 30, description |-> 80, comments |-> 0]]
SummaryLen(t) == TicketShapes[t].summary
DescriptionLen(t) == TicketShapes[t].description
CommentCount(t) == TicketShapes[t].comments

\* plan texts: what the provider writes ("" after strip(), or a long plan
\* that mentions tests) and the template of _default_plan
ProviderPlans == {"", "long"}
DEFAULT_PLAN_TEMPLATE_LEN == 233
PlanLen(plan, t) ==
    CASE plan = "" -> 0
      [] plan = "long" -> 300
      [] plan \in {"ten chars.", "write test"} -> 10
      [] OTHER -> DEFAULT_PLAN_TEMPLATE_LEN + SummaryLen(t)
                  + (IF DescriptionLen(t) > 0 THEN DescriptionLen(t) ELSE 23)
PlanHasKeyword(plan) == plan \in {"long", "default", "write test"}

\* PlannerAgent._calculate_confidence, in hundredths
PlannerConfidence(t, plan) ==
    LET s0 == 50
        s1 == s0 + (IF SummaryLen(t) > 10 THEN 10 ELSE 0)
        s2 == s1 + (IF DescriptionLen(t) > 50 THEN 15
                    ELSE IF DescriptionLen(t) > 20 THEN 8 ELSE 0)
        s3 == s2 + (IF CommentCount(t) > 0 THEN 5 ELSE 0)
        s4 == s3 + (IF CommentCount(t) >= 3 THEN 5 ELSE 0)
        s5 == s4 + (IF plan # "" /\ PlanLen(plan, t) > 200 THEN 10 ELSE 0)
        s6 == s5 + (IF plan # "" /\ PlanHasKeyword(plan) THEN 5 ELSE 0)
    IN  Min(s6, 100)

\* what the Planner's collaborators do in one execution: the tracker fails
\* (jira_fail), the provider's plan call raises (llm_fail), or both answer;
\* best_effort names the call of _transition_to_in_progress that raised
PlannerOutcomes(llm) ==
    {[step |-> "planner", kind |-> "jira_fail", ticket |-> "poor",
      plan |-> "", best_effort |-> "ok"]}
    \cup {[step |-> "planner", kind |-> "llm_fail", ticket |-> t,
           plan |-> "", best_effort |-> e] :
            t \in IF llm THEN Tickets ELSE {}, e \in {"ok", "transition"}}
    \cup {[step |-> "planner", kind |-> "ok", ticket |-> t, plan |-> p,
           best_effort |-> e] :
            t \in Tickets, p \in IF llm THEN ProviderPlans ELSE {"default"},
            e \in {"ok", "transition"}}

\* mutant: a later Planner run names a fresh branch
PlannerBranchFresh(state) ==
    IF state.branch_name = "" THEN state.jira_ticket_id ELSE "other"

\* state.branch_name = state.jira_ticket_id
PlannerBranch(state) == state.jira_ticket_id

\* PlannerAgent.run
PlannerRun(out, state) ==
    IF out.kind = "jira_fail"
    THEN [state EXCEPT !.error = "Planner error", !.status = "failed"]
    ELSE LET fetched == [state EXCEPT !.jira_details = out.ticket,
                                      !.branch_name = PlannerBranch(state)]
         IN  IF out.kind = "llm_fail"
             THEN [fetched EXCEPT !.error = "Planner error",
                                  !.status = "failed"]
             ELSE [fetched EXCEPT
                     !.implementation_plan = out.plan,
                     !.status = "planning",
                     !.confidence.planning =
                         PlannerConfidence(out.ticket, out.plan)]

(***************************************************************************)
(* Implementer                                                             *)
(***************************************************************************)

\* what happens in one Implementer execution: the clone fails; the existing
\* branch is judged complete (skip); files are generated and written; or a
\* call after the setup raises. branch_exists is the answer of git
\* ls-remote, checkout_ok the success of the checkout of the existing branch
\* or of the creation of the new one; best_effort says whether a call of
\* _gather_existing_context (made when the branch exists) raised.
ImplementerOutcomes(llm) ==
    {[step |-> "implementer", kind |-> "clone_fail", branch_exists |-> FALSE,
      checkout_ok |-> TRUE, files |-> 0, best_effort |-> "ok"]}
    \cup {[step |-> "implementer", kind |-> "skip", branch_exists |-> TRUE,
           checkout_ok |-> c, files |-> 0, best_effort |-> e] :
            c \in IF llm THEN BOOLEAN ELSE {}, e \in {"ok", "context"}}
    \cup UNION {{[step |-> "implementer", kind |-> k, branch_exists |-> b,
                  checkout_ok |-> c, files |-> 1, best_effort |-> e] :
                   k \in {"written", "raise"}, c \in BOOLEAN,
                   e \in IF b THEN {"ok", "context"} ELSE {"ok"}} :
                 b \in BOOLEAN}

\* mutant: the default working copy is not keyed by the ticket id
ProjectPathShared(ticket) == "/tmp/project"

\* f"/tmp/project_{state.jira_ticket_id}"
ProjectPath(ticket) == "/tmp/project_" \o ticket

\* the number of files _write_files writes in one Implementer execution
ImplementerWrites(out) ==
    IF out.kind = "written" THEN out.files ELSE 0

\* mutant: the affirmative completion check does not return early
ImplementerRunSkipFallsThrough(out, state) ==
    IF out.kind = "clone_fail"
    THEN [state EXCEPT !.error = "Repository setup failed",
                       !.status = "failed"]
    ELSE LET repo_path == IF state.repo_path # "" THEN state.repo_path
                          ELSE ProjectPath(state.jira_ticket_id)
             setup == [state EXCEPT !.repo_path = repo_path,
                                    !.branch_exists = out.branch_exists]
         IN  CASE out.kind = "skip" ->
                    [setup EXCEPT !.skip_implementation = TRUE,
                                  !.code_changes = 1,
                                  !.status = "implementing",
                                  !.confidence.implementation = 70]
               [] out.kind = "written" ->
                    [setup EXCEPT !.code_changes = out.files,
                                  !.status = "implementing",
                                  !.confidence.implementation = 70]
               [] OTHER ->
                    [setup EXCEPT !.error = "Implementer error",
                                  !.status = "failed"]

\* ImplementerAgent.run
ImplementerRun(out, state) ==
    IF out.kind = "clone_fail"
    THEN [state EXCEPT !.error = "Repository setup failed",
                       !.status = "failed"]
    ELSE LET repo_path == IF state.repo_path # "" THEN state.repo_path
                          ELSE ProjectPath(state.jira_ticket_id)
             setup == [state EXCEPT !.repo_path = repo_path,
                                    !.branch_exists = out.branch_exists]
         IN  CASE out.kind = "skip" ->
                    [setup EXCEPT !.skip_implementation = TRUE,
                                  !.status = "implementing",
                                  !.confidence.implementation = 90]
               [] out.kind = "written" ->
                    [setup EXCEPT !.code_changes = out.files,
                                  !.status = "implementing",
                                  !.confidence.implementation = 70]
               [] OTHER ->
                    [setup EXCEPT !.error = "Implementer error",
                                  !.status = "failed"]

(***************************************************************************)
(* Tester                                                                  *)
(***************************************************************************)

\* mutant: the iteration penalty is missing
TesterConfidenceNoPenalty(test_result, iterations) ==
    LET passed == test_result.passed
        failed == test_result.failed
        total == passed + failed
        score == IF test_result.success
                 THEN 85 + (IF total > 0 THEN 10 ELSE 0)
                         + (IF total >= 5 THEN 5 ELSE 0)
                 ELSE IF total > 0
                      THEN RoundDiv(30 * total + 40 * passed, total)
                      ELSE 30
    IN  Min(Max(score, 10), 100)

\* TesterAgent._calculate_confidence, in hundredths; round(score, 2) is
\* the nearest hundredth wherever score is not halfway between two
\* hundredths, which needs a total that is a multiple of 16
TesterConfidence(test_result, iterations) ==
    LET passed == test_result.passed
        failed == test_result.failed
        total == passed + failed
        penalty == (iterations - 1) * 10
        \* score * total, so that the pass rate stays an integer
        score == IF test_result.success
                 THEN 85 + (IF total > 0 THEN 10 ELSE 0)
                         + (IF total >= 5 THEN 5 ELSE 0) - penalty
                 ELSE IF total > 0
                      THEN RoundDiv(Max((30 - penalty) * total + 40 * passed, 0),
                                    total)
                      ELSE 30 - penalty
    IN  Min(Max(score, 10), 100)

\* a line of console output has no "<n> passed" or no "<n> failed" in it
NoCount == -1

\* lines of console output, by what the patterns of _run_tests see in them:
\* whether the line contains "Tests:", and the number in front of " passed"
\* and of " failed". In order: "PASS src/a.test.js"; "Tests: 12 passed, 0
\* failed"; "Tests: 3 passed, 2 failed"; "Tests: 12 passed, 12 total"; "Test
\* Suites: 1 passed, 1 total"; "Test Suites: 1 failed, 1 passed, 2 total";
\* "2 failed".
OutputLines ==
    {[tests |-> FALSE, passed |-> NoCount, failed |-> NoCount],
     [tests |-> TRUE, passed |-> 12, failed |-> 0],
     [tests |-> TRUE, passed |-> 3, failed |-> 2],
     [tests |-> TRUE, passed |-> 12, failed |-> NoCount],
     [tests |-> FALSE, passed |-> 1, failed |-> NoCount],
     [tests |-> FALSE, passed |-> 1, failed |-> 1],
     [tests |-> FALSE, passed |-> NoCount, failed |-> 2]}

\* console outputs of at most MaxLines lines
Outputs == UNION {[1..n -> OutputLines] : n \in 0..MaxLines}

\* re.search(r"(\d+) passed", output): the count of the first line that has
\* one, NoCount when there is no match
passed_match(output) ==
    LET m == {i \in DOMAIN output : output[i].passed # NoCount}
    IN  IF m = {} THEN NoCount
        ELSE output[CHOOSE i \in m : \A j \in m : i <= j].passed

\* re.search(r"(\d+) failed", output)
failed_match(output) ==
    LET m == {i \in DOMAIN output : output[i].failed # NoCount}
    IN  IF m = {} THEN NoCount
        ELSE output[CHOOSE i \in m : \A j \in m : i <= j].failed

\* mutant: success is the exit status alone
_run_tests_exit_only(exit_ok, output) ==
    LET has == \E i \in DOMAIN output : output[i].tests
        passed == IF has /\ passed_match(output) # NoCount
                  THEN passed_match(output) ELSE 0
        failed == IF has /\ failed_match(output) # NoCount
                  THEN failed_match(output) ELSE 0
    IN  [present |-> TRUE, success |-> exit_ok,
         passed |-> passed, failed |-> failed, error |-> FALSE]

\* TesterAgent._run_tests on the exit status and the output of the command
_run_tests(exit_ok, output) ==
    LET has == \E i \in DOMAIN output : output[i].tests
        passed == IF has /\ passed_match(output) # NoCount
                  THEN passed_match(output) ELSE 0
        failed == IF has /\ failed_match(output) # NoCount
                  THEN failed_match(output) ELSE 0
    IN  [present |-> TRUE, success |-> exit_ok /\ failed = 0,
         passed |-> passed, failed |-> failed, error |-> FALSE]

\* what the run-tests call returns: the exit status and the parsed counts
\* (no tests found and exit 0; failures with exit 0; failures with exit 1)
TestRuns ==
    {[exit_ok |-> TRUE, passed |-> 0, failed |-> 0],
     [exit_ok |-> TRUE, passed |-> 3, failed |-> 2],
     [exit_ok |-> FALSE, passed |-> 3, failed |-> 2]}

\* what one Tester execution meets: the run-tests call raises (run_raise), or
\* it returns; fix says what the fix-suggestion call does when it is made
\* (a text, an empty text, or it raises)
TesterOutcomes ==
    {[step |-> "tester", kind |-> "run_raise", exit_ok |-> FALSE,
      passed |-> 0, failed |-> 0, fix |-> "fix"]}
    \cup {[step |-> "tester", kind |-> "ran", exit_ok |-> t.exit_ok,
           passed |-> t.passed, failed |-> t.failed, fix |-> x] :
            t \in TestRuns, x \in {"fix", "", "raise"}}

\* mutant: the except clause also sets status = failed
TesterRaisedFails(state) ==
    [state EXCEPT !.error = "Tester error", !.test_results = ErrorResults,
                  !.status = "failed"]

\* mutant: the except clause also resets the iteration counter
TesterRaisedResets(state) ==
    [state EXCEPT !.error = "Tester error", !.test_results = ErrorResults,
                  !.test_iterations = 0]

\* the except clause of TesterAgent.run
TesterRaised(state) ==
    [state EXCEPT !.error = "Tester error", !.test_results = ErrorResults]

\* mutant: the fix-suggestion call is also made on the third iteration
TesterFixCalledAtCap(llm, out, state) ==
    /\ out.kind = "ran"
    /\ ~(out.exit_ok /\ out.failed = 0)
    /\ llm
    /\ state.test_iterations + 1 <= 3

\* TesterAgent.run: whether _attempt_fix is called, that is whether the
\* provider is asked for fix suggestions (the tests failed, a provider is
\* configured, and test_iterations, already incremented, is below 3)
TesterFixCalled(llm, out, state) ==
    /\ out.kind = "ran"
    /\ ~(out.exit_ok /\ out.failed = 0)
    /\ llm
    /\ state.test_iterations + 1 < 3

\* TesterAgent.run
TesterRun(llm, out, state) ==
    IF out.kind = "run_raise" THEN TesterRaised(state)
    ELSE LET test_result == [present |-> TRUE,
                             success |-> out.exit_ok /\ out.failed = 0,
                             passed |-> out.passed, failed |-> out.failed,
                             error |-> FALSE]
             iterations == state.test_iterations + 1
             ran == [state EXCEPT
                       !.test_iterations = iterations,
                       !.test_results = test_result,
                       !.status = "testing",
                       !.confidence.testing =
                           TesterConfidence(test_result, iterations)]
         IN  IF TesterFixCalled(llm, out, state)
             THEN IF out.fix = "raise" THEN TesterRaised(ran)
                  ELSE [ran EXCEPT !.fix_suggestions = out.fix]
             ELSE ran

(***************************************************************************)
(* Reporter                                                                *)
(***************************************************************************)

\* what one Reporter execution meets: a call before the pull request is
\* recorded raises; a pull request is created or an open one is found; the
\* creation fails (caught, no pull request); a call after the pull request
\* is recorded raises; best_effort names the call that raised and was
\* swallowed: the ticket comment or the ticket transition of _update_jira,
\* or the notification
ReporterOutcomes ==
    {[step |-> "reporter", kind |-> k, best_effort |-> "ok"] :
        k \in {"raise", "created", "existing", "create_failed",
               "raise_after_pr"}}
    \cup {[step |-> "reporter", kind |-> k, best_effort |-> e] :
            k \in {"created", "existing", "create_failed"},
            e \in {"comment", "transition", "notify"}}

\* mutant: a failing notification reaches the except clause of run
ReporterRunNotifyFails(out, state) ==
    CASE out.kind = "raise" \/ out.best_effort = "notify" ->
           [state EXCEPT !.error = "Reporter error", !.status = "failed"]
      [] out.kind = "create_failed" ->
           [state EXCEPT !.status = "done"]
      [] out.kind = "raise_after_pr" ->
           [state EXCEPT !.pr_url = "url", !.pr_number = 42,
                         !.error = "Reporter error", !.status = "failed"]
      [] OTHER ->
           [state EXCEPT !.pr_url = "url", !.pr_number = 42,
                         !.status = "done"]

\* head refs of the pull requests of the repository
Heads == {"DP-123", "other"}

\* mutant: the search of the listing never finds a pull request
ReporterListedNever(github, state) == FALSE

\* _create_or_update_pr: whether list_pull_requests(state="open") returned a
\* pull request whose head ref equals branch_name
ReporterListed(github, state) == state.branch_name \in github.listed

\* the outcomes of one Reporter execution that the listing allows: the
\* comment on the pull request found, or the creation of a new one
ReporterOutcomesFor(listed) ==
    {out \in ReporterOutcomes :
        IF listed THEN out.kind \in {"raise", "existing", "raise_after_pr"}
        ELSE out.kind # "existing"}

\* the calls of one Reporter execution that change the repository's pull
\* requests: create_pr_comment on the pull request found, else
\* create_pull_request, whose pull request later listings return
ReporterGitHub(out, listed, github, state) ==
    IF out.kind \in {"raise", "create_failed"} THEN github
    ELSE IF listed
    THEN [github EXCEPT !.comments = @ + 1]
    ELSE [github EXCEPT !.created = @ + 1,
                        !.listed = @ \cup {state.branch_name}]

\* ReporterAgent.run
ReporterRun(out, state) ==
    CASE out.kind = "raise" ->
           [state EXCEPT !.error = "Reporter error", !.status = "failed"]
      [] out.kind = "create_failed" ->
           [state EXCEPT !.status = "done"]
      [] out.kind = "raise_after_pr" ->
           [state EXCEPT !.pr_url = "url", !.pr_number = 42,
                         !.error = "Reporter error", !.status = "failed"]
      [] OTHER ->
           [state EXCEPT !.pr_url = "url", !.pr_number = 42,
                         !.status = "done"]

(***************************************************************************)
(* The workflow graph (create_dev_workflow)                                *)
(***************************************************************************)

VARIABLES
    state,        \* the graph state (GraphState), absent keys at their defaults
    pc,           \* the node that executes next; "__end__", "raised" when over
    llm,          \* whether a completion provider is configured
    tester_runs,  \* number of Tester executions of the run so far
    resp,         \* the provider response of a direct call of route (SpecRouter)
    outcome,      \* what the collaborators did in a direct call of a step agent
    github,       \* direct calls of the Reporter (SpecReporter): the head refs
                  \* list_pull_requests returns, the pull requests created
                  \* and the comments added so far
    returned,     \* skip_implementation and fix_suggestions of the AgentState
                  \* the agent of the last node returned
    runs,         \* concurrent runs (SpecRuns): each run's graph state and
                  \* position
    disk,         \* concurrent runs: what each working-copy path holds
    access,       \* concurrent runs: the filesystem access of the last step
    task_result   \* what run_workflow_task returned (SpecTask)

vars == <<state, pc, llm, tester_runs, resp, outcome, github, returned,
          runs, disk, access, task_result>>

\* the variables of the concurrent runs and of the queued task
others == <<runs, disk, access, task_result>>

\* no concurrent runs are followed
NoRuns == <<>>
NoDisk == <<>>
NoAccess == [run |-> 0, path |-> "", ops |-> {}]

\* run_workflow_task has not returned
NoTaskResult == [returned |-> FALSE]

StepNodes == {"planner", "implementer", "tester", "reporter"}

\* no direct call of a step agent has been made
NoOutcome == [kind |-> "none"]

\* the pull requests of the repository are not followed
NoGitHub == [listed |-> {}, created |-> 0, comments |-> 0]

\* the fields of an agent's result that no step node copies to the graph
Unmerged(result) ==
    [skip_implementation |-> result.skip_implementation,
     fix_suggestions |-> result.fix_suggestions]

\* no direct call of route has been made
NoResponse ==
    [kind |-> "none", text |-> "", route |-> "absent",
     confidence |-> NoConfidence]

\* the input of run_workflow_task: {"jira_ticket_id": ..., "status": "pending"}
Init ==
    /\ state = [AgentState EXCEPT !.jira_ticket_id = "DP-123"]
    /\ pc = "supervisor"
    /\ llm \in BOOLEAN
    /\ tester_runs = 0
    /\ resp = NoResponse
    /\ outcome = NoOutcome
    /\ github = NoGitHub
    /\ returned = Unmerged(state)
    /\ runs = NoRuns
    /\ disk = NoDisk
    /\ access = NoAccess
    /\ task_result = NoTaskResult

\* mutant: the status test of route_decision is missing
route_decision_no_status(st) ==
    IF st.route = "done" THEN "__end__" ELSE st.route

\* mutant: reaching the iteration cap ends the run like a failure
route_decision_exhaustion_ends(st) ==
    IF st.route = "done" THEN "__end__"
    ELSE IF st.status = "failed"
            \/ st.test_iterations >= MAX_TEST_ITERATIONS THEN "__end__"
    ELSE st.route

\* route_decision: the conditional edge out of the supervisor node
route_decision(st) ==
    IF st.route = "done" THEN "__end__"
    ELSE IF st.status = "failed" THEN "__end__"
    ELSE st.route

\* mutant: the Planner's edge leads straight to the Implementer
StepEdgeChained(node) ==
    IF node = "planner" THEN "implementer" ELSE "supervisor"

\* graph.add_edge(node, "supervisor") for each of the four step nodes
StepEdge(node) == "supervisor"

\* the keys only this step node returns (status, error and confidence are
\* returned by all four)
NodeKeys(node) ==
    CASE node = "planner" -> {"jira_details", "branch_name", "implementation_plan"}
      [] node = "implementer" -> {"repo_path", "code_changes"}
      [] node = "tester" -> {"test_results", "test_iterations"}
      [] node = "reporter" -> {"pr_url", "pr_number"}
      [] OTHER -> {}

\* supervisor_node and its conditional edge; an exception of route leaves
\* graph.invoke
supervisor_node ==
    /\ pc = "supervisor"
    /\ \E result \in {route(llm, r, state) : r \in RouterResponses} :
             IF result.raised
             THEN /\ pc' = "raised"
                  /\ state' = state
                  /\ returned' = returned
             ELSE /\ state' = [state EXCEPT
                                 !.route = result.state.route,
                                 !.confidence = result.state.confidence]
                  /\ returned' = Unmerged(result.state)
                  /\ pc' = route_decision(state')
    /\ UNCHANGED <<llm, tester_runs, resp, outcome, github, others>>

\* the confidence a step node returns: the step's sub-scores and overall
NodeConfidence(result) ==
    [result.confidence EXCEPT
       !.overall = calc_overall_confidence(result.confidence)]

\* planner_node, then the edge to the supervisor
planner_node ==
    /\ pc = "planner"
    /\ \E result \in {PlannerRun(out, state) : out \in PlannerOutcomes(llm)} :
             /\ state' = [state EXCEPT
                            !.jira_details = result.jira_details,
                            !.branch_name = result.branch_name,
                            !.implementation_plan = result.implementation_plan,
                            !.status = result.status,
                            !.error = result.error,
                            !.confidence = NodeConfidence(result)]
             /\ returned' = Unmerged(result)
    /\ pc' = StepEdge("planner")
    /\ UNCHANGED <<llm, tester_runs, resp, outcome, github, others>>

\* implementer_node, then the edge to the supervisor
implementer_node ==
    /\ pc = "implementer"
    /\ \E result \in {ImplementerRun(out, state) : out \in ImplementerOutcomes(llm)} :
             /\ state' = [state EXCEPT
                            !.repo_path = result.repo_path,
                            !.code_changes = result.code_changes,
                            !.status = result.status,
                            !.error = result.error,
                            !.confidence = NodeConfidence(result)]
             /\ returned' = Unmerged(result)
    /\ pc' = StepEdge("implementer")
    /\ UNCHANGED <<llm, tester_runs, resp, outcome, github, others>>

\* tester_node, then the edge to the supervisor
tester_node ==
    /\ pc = "tester"
    /\ tester_runs < MaxTesterRuns
    /\ \E result \in {TesterRun(llm, out, state) : out \in TesterOutcomes} :
             /\ state' = [state EXCEPT
                            !.test_results = result.test_results,
                            !.test_iterations = result.test_iterations,
                            !.status = result.status,
                            !.error = result.error,
                            !.confidence = NodeConfidence(result)]
             /\ returned' = Unmerged(result)
    /\ tester_runs' = tester_runs + 1
    /\ pc' = StepEdge("tester")
    /\ UNCHANGED <<llm, resp, outcome, github, others>>

\* reporter_node, then the edge to the supervisor
reporter_node ==
    /\ pc = "reporter"
    /\ \E result \in {ReporterRun(out, state) : out \in ReporterOutcomes} :
             /\ state' = [state EXCEPT
                            !.pr_url = result.pr_url,
                            !.pr_number = result.pr_number,
                            !.status = result.status,
                            !.error = result.error,
                            !.confidence = NodeConfidence(result)]
             /\ returned' = Unmerged(result)
    /\ pc' = StepEdge("reporter")
    /\ UNCHANGED <<llm, tester_runs, resp, outcome, github, others>>

Next ==
    \/ supervisor_node
    \/ planner_node
    \/ implementer_node
    \/ tester_node
    \/ reporter_node

Spec == Init /\ [][Next]_vars

(***************************************************************************)
(* Direct calls of SupervisorAgent.route on a state the caller built       *)
(***************************************************************************)

\* test_results values a caller passes
CallerResults ==
    {NoResults, ErrorResults,
     [present |-> TRUE, success |-> TRUE, passed |-> 3, failed |-> 0,
      error |-> FALSE],
     [present |-> TRUE, success |-> FALSE, passed |-> 3, failed |-> 2,
      error |-> FALSE]}

\* AgentState(...) values a caller builds: every combination of the fields
\* the Router reads
CallerStates ==
    {[AgentState EXCEPT
        !.jira_ticket_id = "DP-123",
        !.pr_url = u, !.test_results = t, !.skip_implementation = k,
        !.fix_suggestions = f, !.code_changes = c,
        !.implementation_plan = p, !.test_iterations = i] :
        u \in {"", "url"}, t \in CallerResults, k \in BOOLEAN,
        f \in {"", "fix"}, c \in {0, 1}, p \in {"", "default"},
        i \in 0..MaxIterInput}

InitRouter ==
    /\ state \in CallerStates
    /\ pc = "call"
    /\ llm \in BOOLEAN
    /\ tester_runs = 0
    /\ resp = NoResponse
    /\ outcome = NoOutcome
    /\ github = NoGitHub
    /\ returned = Unmerged(state)
    /\ runs = NoRuns
    /\ disk = NoDisk
    /\ access = NoAccess
    /\ task_result = NoTaskResult

\* supervisor.route(state) called once with the provider answering r
route_call ==
    /\ pc = "call"
    /\ \E r \in RouterResponses :
         LET result == route(llm, r, state)
         IN  /\ resp' = r
             /\ state' = result.state
             /\ returned' = Unmerged(result.state)
             /\ pc' = IF result.raised THEN "call_raised" ELSE "call_returned"
    /\ UNCHANGED <<llm, tester_runs, outcome, github, others>>

NextRouter == route_call

SpecRouter == InitRouter /\ [][NextRouter]_vars

(***************************************************************************)
(* Direct calls of ImplementerAgent.run on a state the caller built        *)
(***************************************************************************)

\* AgentState(...) values a caller passes to the Implementer
ImplementerCallers ==
    {[AgentState EXCEPT
        !.jira_ticket_id = "DP-123", !.jira_details = "rich",
        !.branch_name = "DP-123", !.implementation_plan = "default",
        !.repo_path = p, !.code_changes = c, !.fix_suggestions = f,
        !.status = s] :
        p \in {"", "/tmp/repo"}, c \in {0, 1, 2}, f \in {"", "fix"},
        s \in {"pending", "planning", "testing"}}

InitImplementer ==
    /\ state \in ImplementerCallers
    /\ pc = "call"
    /\ llm \in BOOLEAN
    /\ tester_runs = 0
    /\ resp = NoResponse
    /\ outcome = NoOutcome
    /\ github = NoGitHub
    /\ returned = Unmerged(state)
    /\ runs = NoRuns
    /\ disk = NoDisk
    /\ access = NoAccess
    /\ task_result = NoTaskResult

\* implementer.run(state) called once
implementer_call ==
    /\ pc = "call"
    /\ \E out \in ImplementerOutcomes(llm) :
         /\ outcome' = out
         /\ state' = ImplementerRun(out, state)
         /\ returned' = Unmerged(state')
    /\ pc' = "call_returned"
    /\ UNCHANGED <<llm, tester_runs, resp, github, others>>

NextImplementer == implementer_call

SpecImplementer == InitImplementer /\ [][NextImplementer]_vars

(***************************************************************************)
(* Direct calls of ReporterAgent.run, repeated on the state it returned    *)
(***************************************************************************)

\* AgentState(...) values a caller passes to the Reporter
ReporterCallers ==
    {[AgentState EXCEPT
        !.jira_ticket_id = "DP-123", !.jira_details = "rich",
        !.branch_name = "DP-123", !.implementation_plan = "default",
        !.code_changes = c, !.test_results = t, !.test_iterations = i,
        !.status = "testing"] :
        c \in {0, 1}, t \in CallerResults, i \in {0, 1, 3}}

InitReporter ==
    /\ state \in ReporterCallers
    /\ pc = "call"
    /\ llm \in BOOLEAN
    /\ tester_runs = 0
    /\ resp = NoResponse
    /\ outcome = NoOutcome
    /\ github \in {[NoGitHub EXCEPT !.listed = l] : l \in SUBSET Heads}
    /\ returned = Unmerged(state)
    /\ runs = NoRuns
    /\ disk = NoDisk
    /\ access = NoAccess
    /\ task_result = NoTaskResult

\* reporter.run(state), called again on the state it returned while fewer
\* than MaxGitHubWrites pull requests and comments were written
reporter_call ==
    /\ pc \in {"call", "call_returned"}
    /\ github.created + github.comments < MaxGitHubWrites
    /\ LET listed == ReporterListed(github, state)
       IN  \E out \in ReporterOutcomesFor(listed) :
             /\ outcome' = out
             /\ state' = ReporterRun(out, state)
             /\ github' = ReporterGitHub(out, listed, github, state)
             /\ returned' = Unmerged(state')
    /\ pc' = "call_returned"
    /\ UNCHANGED <<llm, tester_runs, resp, others>>

NextReporter == reporter_call

SpecReporter == InitReporter /\ [][NextReporter]_vars

(***************************************************************************)
(* Direct calls of any of the four step agents                             *)
(***************************************************************************)

\* AgentState(...) values a caller passes to the Planner
PlannerCallers ==
    {[AgentState EXCEPT
        !.jira_ticket_id = "DP-123", !.implementation_plan = p,
        !.status = s] :
        p \in {"", "default"}, s \in {"pending", "planning"}}

\* AgentState(...) values a caller passes to the Tester
TesterCallers ==
    {[AgentState EXCEPT
        !.jira_ticket_id = "DP-123", !.jira_details = "rich",
        !.branch_name = "DP-123", !.implementation_plan = "default",
        !.repo_path = "/tmp/repo", !.code_changes = 1,
        !.test_results = t, !.test_iterations = i, !.fix_suggestions = f,
        !.status = "implementing"] :
        t \in CallerResults, i \in 0..MaxIterInput, f \in {"", "old"}}

AgentCallers ==
    PlannerCallers \cup ImplementerCallers \cup TesterCallers
        \cup ReporterCallers

InitAgents ==
    /\ state \in AgentCallers
    /\ pc = "call"
    /\ llm \in BOOLEAN
    /\ tester_runs = 0
    /\ resp = NoResponse
    /\ outcome = NoOutcome
    /\ github \in {[NoGitHub EXCEPT !.listed = l] : l \in SUBSET Heads}
    /\ returned = Unmerged(state)
    /\ runs = NoRuns
    /\ disk = NoDisk
    /\ access = NoAccess
    /\ task_result = NoTaskResult

\* planner.run(state) called once
planner_call ==
    /\ pc = "call"
    /\ \E out \in PlannerOutcomes(llm) :
         /\ outcome' = out
         /\ state' = PlannerRun(out, state)
         /\ returned' = Unmerged(state')
    /\ pc' = "call_returned"
    /\ UNCHANGED <<llm, tester_runs, resp, github, others>>

\* tester.run(state) called once
tester_call ==
    /\ pc = "call"
    /\ \E out \in TesterOutcomes :
         /\ outcome' = out
         /\ state' = TesterRun(llm, out, state)
         /\ returned' = Unmerged(state')
    /\ pc' = "call_returned"
    /\ UNCHANGED <<llm, tester_runs, resp, github, others>>

NextAgents ==
    \/ planner_call
    \/ implementer_call
    \/ tester_call
    \/ reporter_call

SpecAgents == InitAgents /\ [][NextAgents]_vars

(***************************************************************************)
(* Direct calls of TesterAgent._run_tests                                  *)
(***************************************************************************)

\* what run_command returns to _run_tests: the exit status and the output
Consoles ==
    {[step |-> "tester", kind |-> "console", exit_ok |-> e, output |-> o] :
        e \in BOOLEAN, o \in Outputs}

InitTests ==
    /\ state = [AgentState EXCEPT !.jira_ticket_id = "DP-123",
                                  !.repo_path = "/tmp/project"]
    /\ pc = "call"
    /\ llm \in BOOLEAN
    /\ tester_runs = 0
    /\ resp = NoResponse
    /\ outcome \in Consoles
    /\ github = NoGitHub
    /\ returned = Unmerged(state)
    /\ runs = NoRuns
    /\ disk = NoDisk
    /\ access = NoAccess
    /\ task_result = NoTaskResult

\* _run_tests(repo_path) called once, its result stored as test_results
run_tests_call ==
    /\ pc = "call"
    /\ state' = [state EXCEPT
                   !.test_results = _run_tests(outcome.exit_ok, outcome.output)]
    /\ pc' = "call_returned"
    /\ UNCHANGED <<llm, tester_runs, resp, outcome, github, returned, others>>

NextTests == run_tests_call

SpecTests == InitTests /\ [][NextTests]_vars

(***************************************************************************)
(* Direct calls of TesterAgent._calculate_confidence                       *)
(***************************************************************************)

\* the test_result dictionaries and iteration numbers of the calls: counts
\* up to MaxCount, success only without failed tests, iterations 1..3
ConfidenceCallers ==
    {[AgentState EXCEPT
        !.test_results = [present |-> TRUE, success |-> s, passed |-> p,
                          failed |-> IF s THEN 0 ELSE f, error |-> FALSE],
        !.test_iterations = i] :
        s \in BOOLEAN, p \in 0..MaxCount, f \in 0..MaxCount,
        i \in 1..MAX_TEST_ITERATIONS}

InitTesterConfidence ==
    /\ state \in ConfidenceCallers
    /\ pc = "call"
    /\ llm = TRUE
    /\ tester_runs = 0
    /\ resp = NoResponse
    /\ outcome = NoOutcome
    /\ github = NoGitHub
    /\ returned = Unmerged(state)
    /\ runs = NoRuns
    /\ disk = NoDisk
    /\ access = NoAccess
    /\ task_result = NoTaskResult

\* _calculate_confidence(test_result, iterations) called once, its result
\* stored as confidence["testing"]
tester_confidence_call ==
    /\ pc = "call"
    /\ state' = [state EXCEPT
                   !.confidence.testing =
                       TesterConfidence(state.test_results,
                                        state.test_iterations)]
    /\ pc' = "call_returned"
    /\ UNCHANGED <<llm, tester_runs, resp, outcome, github, returned, others>>

NextTesterConfidence == tester_confidence_call

SpecTesterConfidence ==
    InitTesterConfidence /\ [][NextTesterConfidence]_vars

(***************************************************************************)
(* Direct calls of PlannerAgent._calculate_confidence                      *)
(***************************************************************************)

\* the tickets and plans of the calls: every shape of TicketShapes, the
\* plans of a run and two plans of 10 characters
PlanCallers ==
    {[AgentState EXCEPT !.jira_details = t, !.implementation_plan = p] :
        t \in DOMAIN TicketShapes,
        p \in ProviderPlans \cup {"default", "ten chars.", "write test"}}

InitPlannerConfidence ==
    /\ state \in PlanCallers
    /\ pc = "call"
    /\ llm = TRUE
    /\ tester_runs = 0
    /\ resp = NoResponse
    /\ outcome = NoOutcome
    /\ github = NoGitHub
    /\ returned = Unmerged(state)
    /\ runs = NoRuns
    /\ disk = NoDisk
    /\ access = NoAccess
    /\ task_result = NoTaskResult

\* _calculate_confidence(summary, description, comments, plan) called once,
\* its result stored as confidence["planning"]
planner_confidence_call ==
    /\ pc = "call"
    /\ state' = [state EXCEPT
                   !.confidence.planning =
                       PlannerConfidence(state.jira_details,
                                         state.implementation_plan)]
    /\ pc' = "call_returned"
    /\ UNCHANGED <<llm, tester_runs, resp, outcome, github, returned, others>>

NextPlannerConfidence == planner_confidence_call

SpecPlannerConfidence ==
    InitPlannerConfidence /\ [][NextPlannerConfidence]_vars

(***************************************************************************)
(* The output _run_tests stores                                            *)
(***************************************************************************)

\* lengths of what the test command writes to stdout and to stderr
CaptureLengths == {0, 1, 1000, 1999, 2000, 2001, 3000, 5000}

\* A string is followed as a slice of the console capture: the offset of
\* its first character in the capture and its length.
\* stdout + stderr
Capture(stdout_len, stderr_len) ==
    [start |-> 0, len |-> stdout_len + stderr_len]

\* mutant: the first 2000 characters are kept
OutputHead(s) ==
    [start |-> s.start, len |-> IF s.len > 2000 THEN 2000 ELSE s.len]

\* output[-2000:]
OutputTail(s) ==
    IF s.len > 2000
    THEN [start |-> s.start + (s.len - 2000), len |-> 2000]
    ELSE s

\* what the mocked run_command returns in a call of _run_tests
Captures ==
    {[step |-> "tester", kind |-> "capture", stdout |-> o, stderr |-> e] :
        o \in CaptureLengths, e \in CaptureLengths}

InitOutput ==
    /\ state = [AgentState EXCEPT !.jira_ticket_id = "DP-123",
                                  !.repo_path = "/tmp/project"]
    /\ pc = "call"
    /\ llm = FALSE
    /\ tester_runs = 0
    /\ resp = NoResponse
    /\ outcome \in Captures
    /\ github = NoGitHub
    /\ returned = Unmerged(state)
    /\ runs = NoRuns
    /\ disk = NoDisk
    /\ access = NoAccess
    /\ task_result = NoTaskResult

\* _run_tests(repo_path) called once; of its result the "output" entry is
\* followed
run_tests_output ==
    /\ pc = "call"
    /\ state' = [state EXCEPT
                   !.test_results =
                       [present |-> TRUE,
                        output |-> OutputTail(Capture(outcome.stdout,
                                                      outcome.stderr))]]
    /\ pc' = "call_returned"
    /\ UNCHANGED <<llm, tester_runs, resp, outcome, github, returned, others>>

NextOutput == run_tests_output

SpecOutput == InitOutput /\ [][NextOutput]_vars

(***************************************************************************)
(* The queued task: run_workflow_task                                      *)
(***************************************************************************)

\* the task has been dequeued with the ticket id; nothing was built yet
InitTask ==
    /\ state = [AgentState EXCEPT !.jira_ticket_id = "DP-123"]
    /\ pc = "task"
    /\ llm \in BOOLEAN
    /\ tester_runs = 0
    /\ resp = NoResponse
    /\ outcome = NoOutcome
    /\ github = NoGitHub
    /\ returned = Unmerged(state)
    /\ runs = NoRuns
    /\ disk = NoDisk
    /\ access = NoAccess
    /\ task_result = NoTaskResult

\* update_state and create_dev_workflow: either raises, or graph.invoke
\* starts at the entry point
task_start ==
    /\ pc = "task"
    /\ pc' \in {"supervisor", "raised"}
    /\ UNCHANGED <<state, llm, tester_runs, resp, outcome, github, returned,
                   runs, disk, access, task_result>>

\* mutant: the except clause logs and raises again
task_return_reraise ==
    /\ pc \in {"__end__", "raised"}
    /\ IF pc = "raised"
       THEN /\ pc' = "escaped"
            /\ task_result' = task_result
       ELSE /\ pc' = "returned"
            /\ task_result' =
                  [returned |-> TRUE, caught |-> FALSE,
                   result |-> [jira_ticket_id |-> state.jira_ticket_id,
                               status |-> state.status,
                               pr_url |-> state.pr_url,
                               error |-> state.error]]
    /\ UNCHANGED <<state, llm, tester_runs, resp, outcome, github, returned,
                   runs, disk, access>>

\* the two return statements of run_workflow_task: after graph.invoke
\* returned the final state, and in the except clause
task_return ==
    /\ pc \in {"__end__", "raised"}
    /\ pc' = "returned"
    /\ task_result' =
          IF pc = "raised"
          THEN [returned |-> TRUE, caught |-> TRUE,
                result |-> [jira_ticket_id |-> state.jira_ticket_id,
                            status |-> "failed",
                            error |-> "exception"]]
          ELSE [returned |-> TRUE, caught |-> FALSE,
                result |-> [jira_ticket_id |-> state.jira_ticket_id,
                            status |-> state.status,
                            pr_url |-> state.pr_url,
                            error |-> state.error]]
    /\ UNCHANGED <<state, llm, tester_runs, resp, outcome, github, returned,
                   runs, disk, access>>

NextTask ==
    \/ task_start
    \/ supervisor_node
    \/ planner_node
    \/ implementer_node
    \/ tester_node
    \/ reporter_node
    \/ task_return

SpecTask == InitTask /\ [][NextTask]_vars

(***************************************************************************)
(* Concurrent runs on one filesystem                                       *)
(***************************************************************************)

\* two workflow tasks executing at the same time
Runs == {1, 2}

\* the ticket ids the tasks are queued with
RunTickets == {"DP-123", "DP-124"}

\* the provider answers the Router of a concurrent run gets: an answer
\* json.loads rejects, or the bare route name of the Implementer
RunResponses ==
    {r \in RouterResponses :
        \/ r.kind = "badjson"
        \/ r.kind = "text" /\ r.text = "implementer"}

\* a path that does not exist
Absent == [exists |-> FALSE, cloned_by |-> 0, files |-> {}]

\* the paths the runs can name
RunPaths == {ProjectPath(t) : t \in RunTickets} \cup {ProjectPathShared("")}

\* a step node's return value merged into the graph state st
MergeNode(node, st, result) ==
    [k \in DOMAIN st |->
        IF k \in NodeKeys(node) \cup {"status", "error"} THEN result[k]
        ELSE IF k = "confidence" THEN NodeConfidence(result)
        ELSE st[k]]

\* repo_path = state.repo_path or f"/tmp/project_{state.jira_ticket_id}"
ImplementerPath(st) ==
    IF st.repo_path # "" THEN st.repo_path
    ELSE ProjectPath(st.jira_ticket_id)

\* run_command with cwd: the command runs only in a directory that exists
CwdExists(path) == path # "" /\ disk[path].exists

\* the step of run i ends: its result is merged, the edge leads to the Router
RunStepDone(i, node, result) ==
    runs' = [runs EXCEPT ![i] =
               [pc |-> StepEdge(node),
                state |-> MergeNode(node, runs[i].state, result)]]

InitRuns ==
    /\ runs \in {[i \in Runs |->
                    [pc |-> "supervisor",
                     state |-> [AgentState EXCEPT !.jira_ticket_id = t[i]]]] :
                 t \in {u \in [Runs -> RunTickets] : u[1] = "DP-123"}}
    /\ disk = [p \in RunPaths |-> Absent]
    /\ access = NoAccess
    /\ state = AgentState
    /\ pc = "runs"
    /\ llm = TRUE
    /\ tester_runs = 0
    /\ resp = NoResponse
    /\ outcome = NoOutcome
    /\ github = NoGitHub
    /\ returned = Unmerged(state)
    /\ task_result = NoTaskResult

\* supervisor_node of run i and its conditional edge
run_supervisor(i) ==
    /\ runs[i].pc = "supervisor"
    /\ \E result \in {route(llm, r, runs[i].state) : r \in RunResponses} :
          /\ ~result.raised
          /\ LET st == [runs[i].state EXCEPT
                          !.route = result.state.route,
                          !.confidence = result.state.confidence]
             IN  runs' = [runs EXCEPT ![i] =
                            [pc |-> route_decision(st), state |-> st]]
    /\ access' = [run |-> i, path |-> "", ops |-> {}]
    /\ UNCHANGED <<disk, state, pc, llm, tester_runs, resp, outcome, github,
                   returned, task_result>>

\* planner_node of run i; the tracker and the provider answer
run_planner(i) ==
    /\ runs[i].pc = "planner"
    /\ \E out \in {o \in PlannerOutcomes(llm) :
                     o.kind = "ok" /\ o.plan = "long" /\ o.best_effort = "ok"} :
          RunStepDone(i, "planner", PlannerRun(out, runs[i].state))
    /\ access' = [run |-> i, path |-> "", ops |-> {}]
    /\ UNCHANGED <<disk, state, pc, llm, tester_runs, resp, outcome, github,
                   returned, task_result>>

\* mutant: the path is locked while the other run works on it
run_implementer_rm_locked(i) ==
    /\ runs[i].pc = "implementer"
    /\ \A j \in Runs \ {i} :
          \/ runs[j].state.repo_path # ImplementerPath(runs[i].state)
          \/ runs[j].pc = "__end__"
    /\ LET path == ImplementerPath(runs[i].state)
       IN  /\ disk' = [disk EXCEPT ![path] = Absent]
           /\ access' = [run |-> i, path |-> path, ops |-> {"delete"}]
    /\ runs' = [runs EXCEPT ![i].pc = "implementer_clone"]
    /\ UNCHANGED <<state, pc, llm, tester_runs, resp, outcome, github,
                   returned, task_result>>

\* implementer_node of run i, first half of "rm -rf {repo_path} && git clone"
run_implementer_rm(i) ==
    /\ runs[i].pc = "implementer"
    /\ LET path == ImplementerPath(runs[i].state)
       IN  /\ disk' = [disk EXCEPT ![path] = Absent]
           /\ access' = [run |-> i, path |-> path, ops |-> {"delete"}]
    /\ runs' = [runs EXCEPT ![i].pc = "implementer_clone"]
    /\ UNCHANGED <<state, pc, llm, tester_runs, resp, outcome, github,
                   returned, task_result>>

\* second half: git clone fails on a path that exists and is not empty,
\* and then the Implementer returns status = failed
run_implementer_clone(i) ==
    /\ runs[i].pc = "implementer_clone"
    /\ LET path == ImplementerPath(runs[i].state)
       IN  /\ access' = [run |-> i, path |-> path, ops |-> {"write"}]
           /\ IF disk[path].exists
              THEN /\ \E out \in {o \in ImplementerOutcomes(llm) :
                                    o.kind = "clone_fail"} :
                         RunStepDone(i, "implementer",
                                     ImplementerRun(out, runs[i].state))
                   /\ disk' = disk
              ELSE /\ disk' = [disk EXCEPT ![path] =
                                 [exists |-> TRUE, cloned_by |-> i,
                                  files |-> {}]]
                   /\ runs' = [runs EXCEPT ![i].pc = "implementer_write"]
    /\ UNCHANGED <<state, pc, llm, tester_runs, resp, outcome, github,
                   returned, task_result>>

\* the rest of the Implementer on a new branch: the setup commands run in
\* repo_path and _write_files writes under it, creating parent directories
run_implementer_write(i) ==
    /\ runs[i].pc = "implementer_write"
    /\ LET path == ImplementerPath(runs[i].state)
       IN  /\ disk' = [disk EXCEPT ![path] =
                         [exists |-> TRUE, cloned_by |-> @.cloned_by,
                          files |-> @.files \cup {i}]]
           /\ access' = [run |-> i, path |-> path, ops |-> {"read", "write"}]
    /\ \E out \in {o \in ImplementerOutcomes(llm) :
                     /\ o.kind = "written" /\ ~o.branch_exists
                     /\ o.checkout_ok /\ o.best_effort = "ok"} :
          RunStepDone(i, "implementer", ImplementerRun(out, runs[i].state))
    /\ UNCHANGED <<state, pc, llm, tester_runs, resp, outcome, github,
                   returned, task_result>>

\* tester_node of run i: the test command runs in state.repo_path and fails
\* when that directory does not exist
run_tester(i) ==
    /\ runs[i].pc = "tester"
    /\ LET path == runs[i].state.repo_path
       IN  /\ access' = [run |-> i, path |-> path,
                         ops |-> IF CwdExists(path) THEN {"read"} ELSE {}]
           /\ \E out \in IF CwdExists(path)
                         THEN {o \in TesterOutcomes :
                                 /\ o.kind = "ran" /\ o.fix = "fix"
                                 /\ o.exit_ok = (o.failed = 0)}
                         ELSE {[step |-> "tester", kind |-> "ran",
                                exit_ok |-> FALSE, passed |-> 0,
                                failed |-> 0, fix |-> "fix"]} :
                 RunStepDone(i, "tester", TesterRun(llm, out, runs[i].state))
    /\ UNCHANGED <<disk, state, pc, llm, tester_runs, resp, outcome, github,
                   returned, task_result>>

\* reporter_node of run i: _commit_and_push runs in state.repo_path, then
\* the pull request is created
run_reporter(i) ==
    /\ runs[i].pc = "reporter"
    /\ LET path == runs[i].state.repo_path
       IN  access' = [run |-> i, path |-> path,
                      ops |-> IF CwdExists(path) THEN {"read"} ELSE {}]
    /\ \E out \in {o \in ReporterOutcomes :
                     o.kind = "created" /\ o.best_effort = "ok"} :
          RunStepDone(i, "reporter", ReporterRun(out, runs[i].state))
    /\ UNCHANGED <<disk, state, pc, llm, tester_runs, resp, outcome, github,
                   returned, task_result>>

NextRuns ==
    \E i \in Runs :
        \/ run_supervisor(i)
        \/ run_planner(i)
        \/ run_implementer_rm(i)
        \/ run_implementer_clone(i)
        \/ run_implementer_write(i)
        \/ run_tester(i)
        \/ run_reporter(i)

SpecRuns == InitRuns /\ [][NextRuns]_vars

(***************************************************************************)
(* Properties                                                              *)
(***************************************************************************)

\* C1 (SpecRouter): iteration cap. Whenever route returns on a state with
\* test_iterations >= 3, the returned route is not tester; when the route
\* chosen was tester, by the provider (a decoded route or a bare answer) or
\* by the fallback, reporter is returned.
C1_IterationCap ==
    (pc = "call_returned" /\ state.test_iterations >= MAX_TEST_ITERATIONS)
    => /\ state.route # "tester"
       /\ (/\ resp.kind = "json" /\ resp.route \in {"tester", "Tester"}
           /\ resp.confidence.kind # "badstr")
          => state.route = "reporter"
       /\ (resp.kind = "text" /\ resp.text \in {"tester", "Tester"})
          => state.route = "reporter"
       /\ (resp.kind = "badjson" /\ state.code_changes > 0
           /\ state.pr_url = "" /\ ~state.test_results.present)
          => state.route = "reporter"

C1_Witness ==
    /\ pc = "call_returned"
    /\ state.test_iterations = MAX_TEST_ITERATIONS
    /\ resp.kind = "json" /\ resp.route = "tester"
    /\ state.route = "reporter"

\* C2 (Spec): in a graph run started with test_iterations = 0 the counter
\* never exceeds MAX_TEST_ITERATIONS.
C2_IterationsBounded == state.test_iterations <= MAX_TEST_ITERATIONS

C2_Witness ==
    /\ state.test_iterations = MAX_TEST_ITERATIONS
    /\ ~state.test_results.success
    /\ pc = "reporter"

\* C3 (Spec): the Tester step executes at most 3 times in a run.
C3_TesterAtMostThrice == tester_runs <= MAX_TEST_ITERATIONS

\* C4 (Spec): a Router decision ends the run exactly when route = done or
\* status = failed, and otherwise hands over to the step named by route;
\* from a state with status = failed no step is ever entered.
C4_TwoExits ==
    [][/\ (pc = "supervisor" /\ pc' # "supervisor" /\ pc' # "raised")
          => /\ (pc' = "__end__")
                  <=> (state'.route = "done" \/ state'.status = "failed")
             /\ pc' # "__end__" => (pc' \in StepNodes /\ pc' = state'.route)
       /\ state.status = "failed" => pc' \notin StepNodes]_vars

C4_Witness ==
    /\ pc = "__end__"
    /\ state.status = "failed"
    /\ state.route \in StepNodes

\* C5 (Spec): once error is set, no step executes: the next Router decision
\* ends the run.
C5_ErrorEndsRun == state.error # "None" => pc \notin StepNodes

\* C6 (SpecRouter): every route that route returns is one of the five valid
\* routes.
C6_RouteValid == pc = "call_returned" => state.route \in valid_routes

C6_Witness ==
    /\ pc = "call_returned"
    /\ resp.kind = "json" /\ resp.route = "garbage"
    /\ state.route \in valid_routes

\* C7 (SpecRouter): route never raises, whatever the provider does and also
\* when no provider is configured.
C7_RouterNeverRaises == pc # "call_raised"

\* C8 as stated (SpecRouter): a response with no structured object, with an
\* object that does not decode, or with a route outside the valid set yields
\* the fallback route (subject to the cap) and confidence 0.3.
C8_UnparsedFallsBack ==
    (/\ pc = "call_returned"
     /\ \/ resp.kind \in {"text", "badjson"}
        \/ resp.kind = "json"
           /\ resp.route \in {"absent", "garbage", ""})
    => /\ state.confidence.routing = 30
       /\ LET f == _fallback_route(state)
          IN  state.route = IF f = "tester"
                               /\ state.test_iterations >= MAX_TEST_ITERATIONS
                            THEN "reporter" ELSE f

\* C8 amended (SpecRouter): a response with no structured object that is
\* not itself a route name, an object that does not decode, an object whose
\* route is missing or a string outside the valid set (its confidence being
\* missing, a number or a string), or whose confidence is a non-numeric
\* string (its route being missing or a string) yields the fallback route
\* (subject to the cap) and confidence 0.3; a bare answer that is itself a
\* route name (in any letter case) is taken as the route, with confidence
\* 0.5.
C8_UnparsedFallsBackAmended ==
    LET f == _fallback_route(state)
        capped(r) == IF r = "tester"
                        /\ state.test_iterations >= MAX_TEST_ITERATIONS
                     THEN "reporter" ELSE r
        named == {"planner", "implementer", "tester", "reporter", "done",
                  "PLANNER", "Tester"}
    IN  /\ (/\ pc = "call_returned"
            /\ \/ resp.kind = "badjson"
               \/ resp.kind = "text" /\ resp.text \notin named
               \/ resp.kind = "json"
                  /\ resp.route # "nonstring"
                  /\ resp.confidence.kind # "null"
                  /\ \/ resp.route \in {"absent", "garbage", ""}
                     \/ resp.confidence.kind = "badstr")
           => (state.confidence.routing = 30 /\ state.route = capped(f))
        /\ (pc = "call_returned" /\ resp.kind = "text"
            /\ resp.text \in named)
           => /\ state.confidence.routing = 50
              /\ resp.text \in valid_routes
                 => state.route = capped(resp.text)
              /\ resp.text = "PLANNER" => state.route = "planner"
              /\ resp.text = "Tester" => state.route = capped("tester")

C8_Witness ==
    /\ pc = "call_returned"
    /\ resp.kind = "text" /\ resp.text = "garbage"
    /\ state.pr_url # ""
    /\ state.route = "done"
    /\ state.confidence.routing = 30

\* C9 (SpecRouter): when the Router falls back, the route is the one of the
\* priority-ordered decision tree over the state's flags (tester becoming
\* reporter at the cap).
C9_FallbackTree ==
    LET pr == state.pr_url # ""
        succeeded == state.test_results.present /\ state.test_results.success
        failed == state.test_results.present /\ ~state.test_results.success
        skip == state.skip_implementation
        fix == state.fix_suggestions # ""
        code == state.code_changes > 0
        plan == state.implementation_plan # ""
        r == IF state.route = "reporter" /\ ~succeeded /\ ~pr
             THEN "tester" ELSE state.route
    IN  (pc = "call_returned" /\ resp.kind = "badjson")
        => /\ pr => r = "done"
           /\ (~pr /\ succeeded) => r = "reporter"
           /\ (~pr /\ ~succeeded /\ skip) => r = "tester"
           /\ (~pr /\ ~succeeded /\ ~skip /\ failed /\ fix)
              => r = "implementer"
           /\ (~pr /\ ~succeeded /\ ~skip /\ ~(failed /\ fix) /\ code)
              => r = "tester"
           /\ (~pr /\ ~succeeded /\ ~skip /\ ~(failed /\ fix) /\ ~code /\ plan)
              => r = "implementer"
           /\ (~pr /\ ~succeeded /\ ~skip /\ ~(failed /\ fix) /\ ~code /\ ~plan)
              => r = "planner"
           /\ (state.route = "reporter" /\ ~succeeded /\ ~pr)
              => state.test_iterations >= MAX_TEST_ITERATIONS

C9_Witness ==
    /\ pc = "call_returned" /\ resp.kind = "badjson"
    /\ state.skip_implementation
    /\ state.test_results.present /\ ~state.test_results.success
    /\ state.fix_suggestions # ""
    /\ state.test_iterations < MAX_TEST_ITERATIONS
    /\ state.route = "tester"

\* C10 (Spec): an exception inside a step leaves the state with error
\* prefixed by the step's name and status = failed.
C10_StepErrorFails ==
    state.error \in {"Planner error", "Implementer error", "Tester error",
                     "Reporter error"}
    => state.status = "failed"

\* C11 (Spec): a run started with no completion provider configured is not
\* aborted by an exception of the Router: it goes on to Planner,
\* Implementer, Tester and Reporter and ends with status = done.
C11_NoProviderRunCompletes == ~llm => pc # "raised"

\* C12 (Spec): when a Tester execution has stored fix suggestions, the graph
\* state the following Router decision (and the next Implementer execution)
\* reads holds those fix suggestions.
C12_FixSuggestionsReachRouter ==
    (pc = "supervisor" /\ returned.fix_suggestions # "")
    => state.fix_suggestions = returned.fix_suggestions

\* C13 (Spec): after the Implementer has short-circuited on an affirmative
\* completion check, the graph state the next Router decision reads has
\* skip_implementation = true, so that the fallback route (no pull request
\* yet, tests not passed) is tester.
C13_SkipReachesRouter ==
    (pc = "supervisor" /\ returned.skip_implementation)
    => /\ state.skip_implementation
       /\ (/\ state.pr_url = ""
           /\ ~(state.test_results.present /\ state.test_results.success))
          => _fallback_route(state) = "tester"

\* C14 (SpecImplementer): when the branch pre-existed and the provider's
\* completion check is affirmative, the Implementer sets
\* skip_implementation = true, status = implementing and
\* confidence.implementation = 0.9, writes no files and leaves code_changes
\* unchanged.
C14_SkipPath ==
    [][(/\ pc = "call" /\ pc' = "call_returned"
        /\ outcome'.kind = "skip" /\ outcome'.branch_exists)
       => /\ state'.skip_implementation
          /\ state'.status = "implementing"
          /\ state'.confidence.implementation = 90
          /\ ImplementerWrites(outcome') = 0
          /\ state'.code_changes = state.code_changes]_vars

C14_Witness ==
    /\ pc = "call_returned"
    /\ outcome.kind = "skip" /\ outcome.branch_exists
    /\ state.skip_implementation
    /\ state.code_changes = 2
    /\ state.confidence.implementation = 90

\* C20 (SpecImplementer): any failure of the Implementer's repository setup
\* (the clone, the checkout of the existing branch or the creation of the
\* new branch) ends the step with status = failed and error set, no file
\* written, repo_path and code_changes unchanged.
C20_SetupFailureTerminal ==
    [][(/\ pc = "call" /\ pc' = "call_returned"
        /\ (outcome'.kind = "clone_fail" \/ ~outcome'.checkout_ok))
       => /\ state'.status = "failed"
          /\ state'.error # "None"
          /\ ImplementerWrites(outcome') = 0
          /\ state'.repo_path = state.repo_path
          /\ state'.code_changes = state.code_changes]_vars

\* C15 (Spec): retry exhaustion is not an error. A Router decision taken
\* after 3 test iterations with the tests still failing that yields
\* reporter (the route the cap puts in place of tester) changes neither
\* status nor error, and the Reporter is the step executed next; the run can
\* then still end with status = done.
C15_ExhaustionNotError ==
    [][(/\ pc = "supervisor" /\ pc' # "raised"
        /\ state.test_iterations >= MAX_TEST_ITERATIONS
        /\ state.test_results.present /\ ~state.test_results.success
        /\ state.status # "failed"
        /\ state'.route = "reporter")
       => /\ state'.status = state.status
          /\ state'.error = state.error
          /\ pc' = "reporter"]_vars

C15_Witness ==
    /\ pc = "__end__"
    /\ state.test_iterations = MAX_TEST_ITERATIONS
    /\ state.test_results.present /\ ~state.test_results.success
    /\ state.status = "done"
    /\ state.error = "None"

\* C16 (Spec): the Reporter executes at most once in a run, also when the
\* creation of the pull request failed: the Reporter is never entered in a
\* state that a Reporter execution has left (status = done, which only the
\* Reporter sets, or pr_url set).
C16_ReporterAtMostOnce ==
    pc = "reporter" => (state.status # "done" /\ state.pr_url = "")

C18_DoneHasPullRequest ==
    (pc = "__end__" /\ state.status = "done") => state.pr_url # ""

\* C19 (SpecReporter): a Reporter execution creates a pull request only when
\* no listed open pull request has head ref branch_name; when one has, it
\* adds exactly one comment, creates none and records the pull request's url
\* and number. With listings that reflect the pull requests created, at most
\* one pull request is created for the branch over repeated executions.
C19_OnePullRequest ==
    [][/\ github'.created > github.created
          => state.branch_name \notin github.listed
       /\ (/\ state.branch_name \in github.listed
           /\ outcome'.kind = "existing")
          => /\ github'.comments = github.comments + 1
             /\ github'.created = github.created
             /\ state'.pr_url = "url" /\ state'.pr_number = 42
       /\ github'.created <= 1]_vars

C19_Witness ==
    /\ pc = "call_returned"
    /\ github.created = 1
    /\ github.comments = 2
    /\ outcome.kind = "existing"
    /\ state.pr_url = "url"

\* C21 (SpecAgents): a failing best-effort collaborator call (the ticket
\* transition of the Planner or of the Reporter, the ticket comment, the
\* gathering of the existing branch's context, the notification) sets
\* neither status = failed nor error: the Planner ends with status =
\* planning, the Implementer goes on to the code generation, the Reporter
\* ends with status = done.
C21_BestEffortSwallowed ==
    [][(/\ pc' = "call_returned"
        /\ outcome'.step \in {"planner", "implementer", "reporter"}
        /\ outcome'.best_effort # "ok"
        /\ outcome'.kind \in {"ok", "written", "created", "existing",
                              "create_failed"})
       => /\ state'.error = state.error
          /\ state'.status # "failed"
          /\ outcome'.step = "planner" => state'.status = "planning"
          /\ outcome'.step = "implementer"
             => /\ state'.status = "implementing"
                /\ state'.code_changes = outcome'.files
                /\ ImplementerWrites(outcome') = outcome'.files
          /\ outcome'.step = "reporter" => state'.status = "done"]_vars

C21_Witness ==
    /\ pc = "call_returned"
    /\ outcome.step = "reporter"
    /\ outcome.best_effort = "notify"
    /\ outcome.kind = "created"
    /\ state.status = "done"
    /\ state.error = "None"

\* C22 as stated (SpecAgents): whenever a Tester execution ends in its
\* exception path, test_iterations has its value of before the execution,
\* test_results is {success: false, error: ...} and every other field is
\* unchanged.
C22_TesterExceptionFrame ==
    [][(/\ pc = "call" /\ pc' = "call_returned"
        /\ outcome'.step = "tester"
        /\ state'.error = "Tester error")
       => state' = [state EXCEPT !.error = "Tester error",
                                 !.test_results = ErrorResults]]_vars

\* C22 amended (SpecAgents): when the run-tests call raises, the Tester
\* changes only error and test_results ({success: false, error: ...}) and
\* test_iterations keeps its value. When the fix-suggestion call raises (it
\* is made only after failed tests, with a provider, below the cap), the
\* exception path starts from the state of the completed test run:
\* test_iterations is incremented, status = testing and confidence.testing
\* are set, and test_results is replaced by {success: false, error: ...}.
C22_TesterExceptionFrameAmended ==
    [][(/\ pc = "call" /\ pc' = "call_returned"
        /\ outcome'.step = "tester"
        /\ state'.error = "Tester error")
       => IF outcome'.kind = "run_raise"
          THEN state' = [state EXCEPT !.error = "Tester error",
                                      !.test_results = ErrorResults]
          ELSE /\ outcome'.fix = "raise"
               /\ ~(outcome'.exit_ok /\ outcome'.failed = 0)
               /\ llm
               /\ state.test_iterations + 1 < MAX_TEST_ITERATIONS
               /\ state' =
                    [state EXCEPT
                       !.error = "Tester error",
                       !.test_results = ErrorResults,
                       !.test_iterations = @ + 1,
                       !.status = "testing",
                       !.confidence.testing =
                           TesterConfidence(
                               [present |-> TRUE, success |-> FALSE,
                                passed |-> outcome'.passed,
                                failed |-> outcome'.failed,
                                error |-> FALSE],
                               state.test_iterations + 1)]]_vars

C22_Witness ==
    /\ pc = "call_returned"
    /\ outcome.step = "tester"
    /\ outcome.kind = "ran" /\ outcome.fix = "raise"
    /\ state.error = "Tester error"
    /\ state.test_results = ErrorResults
    /\ state.test_iterations = 2
    /\ state.status = "testing"

\* C23 (SpecAgents): the Tester asks the provider for fix suggestions only
\* if the test run failed, a provider is configured and test_iterations
\* after the increment is below 3; on success, with no provider or on the
\* third iteration no provider call is made and fix_suggestions is
\* unchanged.
C23_FixOnlyBelowCap ==
    [][(pc = "call" /\ pc' = "call_returned" /\ outcome'.step = "tester")
       => LET failed == /\ outcome'.kind = "ran"
                        /\ ~(outcome'.exit_ok /\ outcome'.failed = 0)
              asked == /\ failed /\ llm
                       /\ state.test_iterations + 1 < MAX_TEST_ITERATIONS
          IN  /\ TesterFixCalled(llm, outcome', state) <=> asked
              /\ ~asked => state'.fix_suggestions = state.fix_suggestions
              /\ (asked /\ outcome'.fix # "raise")
                 => state'.fix_suggestions = outcome'.fix]_vars

C23_Witness ==
    /\ pc = "call_returned"
    /\ outcome.step = "tester" /\ outcome.kind = "ran"
    /\ ~outcome.exit_ok /\ outcome.fix = "fix"
    /\ llm
    /\ state.test_iterations = MAX_TEST_ITERATIONS
    /\ state.fix_suggestions = "old"

\* C24 (SpecTests): test_results.success is true exactly when the exit
\* status of the test command is zero and the parsed failed count is zero;
\* when the output has no recognizable counts (no "Tests:" summary, or no
\* count at all), passed = failed = 0 and success is the exit status.
C24_SuccessNeedsBoth ==
    pc = "call_returned"
    => LET r == state.test_results
           o == outcome.output
           none == \/ \A i \in DOMAIN o : ~o[i].tests
                   \/ \A i \in DOMAIN o :
                        o[i].passed = NoCount /\ o[i].failed = NoCount
       IN  /\ r.success <=> (outcome.exit_ok /\ r.failed = 0)
           /\ none => /\ r.passed = 0 /\ r.failed = 0
                       /\ r.success = outcome.exit_ok

C24_Witness ==
    /\ pc = "call_returned"
    /\ outcome.exit_ok
    /\ state.test_results.failed = 2
    /\ ~state.test_results.success

\* C25 (SpecTests): for a console output that contains one test summary
\* "Tests: P passed, F failed", the stored passed is P and the stored failed
\* is F, whatever other lines surround the summary.
C25_SummaryCountsStored ==
    pc = "call_returned"
    => \A i \in DOMAIN outcome.output :
         LET l == outcome.output[i]
         IN  (/\ l.tests /\ l.passed # NoCount /\ l.failed # NoCount
              /\ \A j \in DOMAIN outcome.output :
                   outcome.output[j].tests => j = i)
             => /\ state.test_results.passed = l.passed
                /\ state.test_results.failed = l.failed

\* C26 (Spec): after every transition of a run, the Router's included,
\* confidence.overall is the weighted sum of the sub-scores held in the same
\* state.
C26_OverallConsistent ==
    state.confidence.overall = calc_overall_confidence(state.confidence)

\* C27 (Spec): in every reachable state of a run each of confidence.routing,
\* planning, implementation and testing lies in [0, 1] (0..100 hundredths)
\* and overall in [0, 1] (0..1000 thousandths), whatever confidence the
\* provider supplies.
C27_ConfidenceBounds ==
    /\ state.confidence.routing \in 0..100
    /\ state.confidence.planning \in 0..100
    /\ state.confidence.implementation \in 0..100
    /\ state.confidence.testing \in 0..100
    /\ state.confidence.overall \in 0..1000

\* C28 (Spec): confidence does not influence control flow.  At every Router
\* decision of a run, two provider answers that carry the same route name
\* and differ only in their confidence value lead to the same outcome: both
\* raise or neither does, and both choose the same route, hence the same
\* next step.
C28_ConfidenceNoControlFlow ==
    pc = "supervisor" =>
        \A r1, r2 \in RouterResponses :
            (r1.kind = r2.kind /\ r1.text = r2.text /\ r1.route = r2.route) =>
                LET a == route(llm, r1, state)
                    b == route(llm, r2, state)
                IN  /\ a.raised = b.raised
                    /\ a.state.route = b.state.route
                    /\ route_decision(a.state) = route_decision(b.state)

\* C29 (Spec): the Router is the single entry point and Router and steps
\* strictly alternate.  A run begins at the Router; a step is entered only
\* from the Router and left only to the Router, so no two steps execute
\* back to back; a Router decision leads to a step or ends the run; and a
\* transition changes the keys of one node only, the one that executes.
C29_RouterStepAlternate ==
    /\ pc = "supervisor"
    /\ [][/\ pc \in StepNodes \cup {"supervisor"}
          /\ pc \in StepNodes => pc' = "supervisor"
          /\ pc' \in StepNodes => pc = "supervisor"
          /\ pc = "supervisor" => pc' \in StepNodes \cup {"__end__", "raised"}
          /\ \A n \in StepNodes \ {pc} :
                \A k \in NodeKeys(n) : state'[k] = state[k]]_vars

\* the Reporter is about to execute after the Tester has executed
C29_Witness == pc = "reporter" /\ tester_runs > 0

\* C30 (Spec): jira_ticket_id never changes during a run; branch_name is
\* either unset or the ticket id, once set it never changes, and only the
\* Planner's transition sets it: the Router, Implementer, Tester and
\* Reporter leave both fields as they were.
C30_TicketAndBranchStable ==
    [][/\ state'.jira_ticket_id = state.jira_ticket_id
       /\ state'.branch_name \in {"", state.jira_ticket_id}
       /\ state.branch_name # "" => state'.branch_name = state.branch_name
       /\ pc # "planner" => state'.branch_name = state.branch_name]_vars

\* the Planner has set the branch and the run went on to open the pull
\* request
C30_Witness ==
    /\ state.branch_name = state.jira_ticket_id
    /\ state.status = "done"
    /\ state.pr_url # ""


(***************************************************************************)
(* A run under fallback-only routing with collaborators that succeed       *)
(***************************************************************************)

\* a provider is configured and no routing answer of it decodes
FallbackResponses == {r \in RouterResponses : r.kind = "badjson"}

\* the outcomes of a step in which every collaborator call succeeds
SucceedingOutcomes(node) ==
    CASE node = "planner" ->
           {[o EXCEPT !.ticket = t] :
              o \in {x \in PlannerOutcomes(TRUE) : x.kind = "ok"},
              t \in {"rich", "terse", "poor"}}
      [] node = "implementer" ->
           {o \in ImplementerOutcomes(TRUE) :
              o.kind \in {"written", "skip"} /\ o.checkout_ok}
      [] node = "tester" ->
           {o \in TesterOutcomes : o.kind = "ran" /\ o.fix # "raise"}
      [] node = "reporter" ->
           {o \in ReporterOutcomes : o.kind \in {"created", "existing"}}

\* the agent of a step node run on the graph state
AgentRun(node, out, st) ==
    CASE node = "planner" -> PlannerRun(out, st)
      [] node = "implementer" -> ImplementerRun(out, st)
      [] node = "tester" -> TesterRun(TRUE, out, st)
      [] node = "reporter" -> ReporterRun(out, st)

InitFallback ==
    /\ state = [AgentState EXCEPT !.jira_ticket_id = "DP-123"]
    /\ pc = "supervisor"
    /\ llm = TRUE
    /\ tester_runs = 0
    /\ resp = NoResponse
    /\ outcome = NoOutcome
    /\ github = NoGitHub
    /\ returned = Unmerged(state)
    /\ runs = NoRuns
    /\ disk = NoDisk
    /\ access = NoAccess
    /\ task_result = NoTaskResult

\* supervisor_node on an answer that does not decode, and its edge
fallback_supervisor ==
    /\ pc = "supervisor"
    /\ \E result \in {route(llm, r, state) : r \in FallbackResponses} :
          /\ state' = [state EXCEPT
                         !.route = result.state.route,
                         !.confidence = result.state.confidence]
          /\ returned' = Unmerged(result.state)
          /\ pc' = route_decision(state')
    /\ outcome' = NoOutcome
    /\ UNCHANGED <<llm, tester_runs, resp, github, others>>

\* the step node the Router chose, with succeeding collaborators, and its
\* edge to the supervisor
fallback_step ==
    /\ pc \in StepNodes
    /\ \E out \in SucceedingOutcomes(pc) :
          LET result == AgentRun(pc, out, state)
          IN  /\ state' = MergeNode(pc, state, result)
              /\ returned' = Unmerged(result)
              /\ outcome' = out
    /\ pc' = StepEdge(pc)
    /\ tester_runs' = IF pc = "tester" THEN tester_runs + 1 ELSE tester_runs
    /\ UNCHANGED <<llm, resp, github, others>>

NextFallback ==
    \/ fallback_supervisor
    \/ fallback_step

\* graph.invoke runs the next node as long as there is one
SpecFallback ==
    InitFallback /\ [][NextFallback]_vars /\ WF_vars(NextFallback)

\* C31 (SpecRuns): working-copy ownership.  When the two runs have distinct
\* ticket ids, under every interleaving each filesystem access of a run is
\* on the path of its own ticket, and the working copy at a run's path was
\* cloned and written by that run alone.
C31_WorkingCopyOwned ==
    runs[1].state.jira_ticket_id # runs[2].state.jira_ticket_id =>
        /\ access.ops # {} =>
              access.path = ProjectPath(runs[access.run].state.jira_ticket_id)
        /\ \A i \in Runs :
              LET d == disk[ProjectPath(runs[i].state.jira_ticket_id)]
              IN  d.cloned_by \in {0, i} /\ d.files \subseteq {i}

\* both runs, on distinct tickets, have written their files and opened
\* their pull requests
C31_Witness ==
    /\ runs[1].state.jira_ticket_id # runs[2].state.jira_ticket_id
    /\ \A i \in Runs :
          /\ runs[i].state.pr_url # ""
          /\ disk[runs[i].state.repo_path].files = {i}

\* C32 (SpecRuns): same-ticket race.  Two runs for the same ticket id name
\* the same working-copy path and nothing locks it: whenever a run stands
\* at its Implementer, the remove step can be taken whatever the other run
\* is doing.
C32_SameTicketSharedPath ==
    runs[1].state.jira_ticket_id = runs[2].state.jira_ticket_id =>
        /\ ImplementerPath(runs[1].state) = ImplementerPath(runs[2].state)
        /\ \A i \in Runs :
              runs[i].pc = "implementer" => ENABLED run_implementer_rm(i)

\* the race: run 1 has written its files and stands at its Tester, and the
\* last step was run 2's remove on the same path, so the files are gone
C32_Witness ==
    /\ runs[1].state.jira_ticket_id = runs[2].state.jira_ticket_id
    /\ runs[1].pc = "tester"
    /\ runs[1].state.code_changes > 0
    /\ access = [run |-> 2, path |-> runs[1].state.repo_path,
                 ops |-> {"delete"}]
    /\ ~disk[runs[1].state.repo_path].exists

C34_PlannerThresholds ==
    pc = "call_returned" =>
        LET t == state.jira_details
            plan == state.implementation_plan
            c == state.confidence.planning
        IN  /\ (/\ DescriptionLen(t) > 50
                /\ CommentCount(t) >= 3
                /\ PlanLen(plan, t) > 200
                /\ PlanHasKeyword(plan)) => c >= 95
            /\ (/\ SummaryLen(t) = 5
                /\ DescriptionLen(t) = 0
                /\ CommentCount(t) = 0
                /\ PlanLen(plan, t) = 10) => c <= 55

\* C35 (SpecOutput): output truncation.  The stored test_results.output is
\* the last at most 2000 characters of the console capture, and truncating
\* the stored string again returns it unchanged.
C35_OutputTruncation ==
    pc = "call_returned" =>
        LET capture == outcome.stdout + outcome.stderr
            stored == state.test_results.output
        IN  /\ stored.len <= 2000
            /\ stored.len = IF capture < 2000 THEN capture ELSE 2000
            /\ stored.start + stored.len = capture
            /\ OutputTail(stored) = stored

\* a capture of 5000 characters was cut to its last 2000
C35_Witness ==
    /\ pc = "call_returned"
    /\ outcome.stdout = 5000
    /\ outcome.stderr = 0
    /\ state.test_results.output = [start |-> 3000, len |-> 2000]

\* C36 (SpecTask): the queued task never raises.  When building or invoking
\* the graph raised, the next step of the task is a return of
\* {jira_ticket_id, status: failed, error}; when graph.invoke returned, it
\* is a return of the final state's status, pr_url and error.
C36_TaskNeverRaises ==
    [][/\ pc = "raised" =>
            /\ pc' = "returned"
            /\ task_result'.returned
            /\ task_result'.result =
                  [jira_ticket_id |-> state.jira_ticket_id,
                   status |-> "failed", error |-> "exception"]
       /\ pc = "__end__" =>
            /\ pc' = "returned"
            /\ task_result'.returned
            /\ task_result'.result.jira_ticket_id = state.jira_ticket_id
            /\ task_result'.result.status = state.status
            /\ task_result'.result.pr_url = state.pr_url
            /\ task_result'.result.error = state.error]_vars

\* the Router raised after the Planner had run, and the task returned the
\* failed result
C36_Witness ==
    /\ pc = "returned"
    /\ task_result.caught
    /\ task_result.result.status = "failed"
    /\ state.implementation_plan # ""

\* C37 (SpecFallback): termination under fallback routing.  When no routing
\* answer decodes and every collaborator call succeeds, the run eventually
\* ends with route = done and status = done.
C37_FallbackTerminates ==
    <>(pc = "__end__" /\ state.route = "done" /\ state.status = "done")

\* C38 (Spec): step ordering for any provider.  The Implementer never
\* executes while implementation_plan is empty, the Tester never executes
\* while repo_path is empty, and the Reporter never executes before the
\* Tester has produced test_results.
C38_StepOrdering ==
    /\ pc = "implementer" => state.implementation_plan # ""
    /\ pc = "tester" => state.repo_path # ""
    /\ pc = "reporter" => state.test_results.present

\* C39 (Spec): the fix cycle is bounded on the Implementer side: the
\* Implementer does not execute again once test_iterations has reached
\* MAX_TEST_ITERATIONS.
C39_ImplementerBounded ==
    pc = "implementer" => state.test_iterations < MAX_TEST_ITERATIONS

\* C40 (Spec): test_iterations never decreases during a run; it changes
\* only in a Tester execution, and then by exactly +1; a Tester execution
\* whose run-tests call returned and whose result was stored increments it;
\* the Router, Planner, Implementer and Reporter leave it unchanged.
C40_IterationsMonotone ==
    [][/\ state'.test_iterations >= state.test_iterations
       /\ state'.test_iterations # state.test_iterations =>
            /\ pc = "tester"
            /\ state'.test_iterations = state.test_iterations + 1
       /\ (pc = "tester" /\ ~state'.test_results.error) =>
            state'.test_iterations = state.test_iterations + 1]_vars

\* three Tester executions were counted and the Reporter is next
C40_Witness ==
    /\ state.test_iterations = 3
    /\ tester_runs = 3
    /\ pc = "reporter"
====
